---- MODULE Spec2Model ----
(***************************************************************************)
(* Model of generate_icon.py: the icon generator of the EZProxy browser    *)
(* extension.  The program is sequential; a state is the position of the   *)
(* interpreter (pc), the locals of the function being executed, the canvas *)
(* being drawn, the file system under images/ and what was printed.        *)
(*                                                                         *)
(* A canvas is the list of primitives drawn on it, in drawing order; the   *)
(* colour of a pixel is that of the last primitive covering it (PixelAt).  *)
(* The imaging library, the font engine and the file system are the        *)
(* environment: env, chosen in Init and fixed for a behaviour, says which  *)
(* typeface is installed, what the text measures, and which library call   *)
(* (if any) raises.                                                        *)
(***************************************************************************)
EXTENDS Integers, Sequences, FiniteSets, TLC

VARIABLES
    env,          \* the environment: fonts, metrics, the call that raises
    jobs,         \* the calls the caller makes, in order
    run,          \* how many times the program has been started
    pc,           \* position of the interpreter
    idx,          \* index in jobs of the call being executed
    frame,        \* entry function being executed: "regular" or "dismissed"
    size,         \* parameter size of the executing function
    is_dismissed, \* parameter is_dismissed of create_regular_icon
    canvas,       \* icon: the image being drawn
    font_size,    \* loop variable of the fit loop; 0 while unbound
    font,         \* local font; face "" while unbound
    measured,     \* TRUE once text_bbox, text_width, text_height are bound
    text_bbox,    \* local text_bbox
    text_width,   \* local text_width
    text_height,  \* local text_height
    tried,        \* history: the candidates measured in this call
    raised,       \* history: the calls that raised inside this call
    warned,       \* history: the warning line was printed in this call
    dirExists,    \* images/ exists
    files,        \* contents of images/
    saveCalls,    \* history: the paths icon.save was called with, this run
    written,      \* history: the paths written by this run, in order
    printed,      \* stdout of this run
    results,      \* canvases returned to a direct caller
    prevFiles,    \* contents of images/ when the previous run ended
    failedOp      \* the call outside the try block that raised; "" while none

vars == << env, jobs, run, pc, idx, frame, size, is_dismissed, canvas,
           font_size, font, measured, text_bbox, text_width, text_height,
           tried, raised, warned, dirExists, files, saveCalls, written,
           printed, results, prevFiles, failedOp >>

(* ------------------------------ bounds -------------------------------- *)

\* Largest size a direct caller passes to the two icon functions.
MaxSize == 17

\* How many times the program is started in one behaviour.
MaxRuns == 2

\* A font or measurement call can raise at the 1st .. MaxFaultAttempt-th
\* candidate of the fit loop.
MaxFaultAttempt == 2

Max(a, b) == IF a >= b THEN a ELSE b

(* --------------------------- the driver's lists ----------------------- *)

\* Faulty variant: the regular loop visits 48 before 32.
RegularSizesReordered == << 16, 48, 32, 128 >>

\* for size in [16, 32, 48, 128]
RegularSizes == << 16, 32, 48, 128 >>

\* for size in [16, 32]
DismissedSizes == << 16, 32 >>

Digits == << "0", "1", "2", "3", "4", "5", "6", "7", "8", "9" >>

RECURSIVE Str(_)
\* str(n) for n >= 0, as the f-strings format the size
Str(n) == IF n < 10 THEN Digits[n + 1]
          ELSE Str(n \div 10) \o Digits[(n % 10) + 1]

\* f'images/icon-{size}.png'
RegularPath(s) == "images/icon-" \o Str(s) \o ".png"

\* f'images/icon-dismissed-{size}.png'
DismissedPath(s) == "images/icon-dismissed-" \o Str(s) \o ".png"

Job(fn, s, flag, path) ==
    [fn |-> fn, size |-> s, is_dismissed |-> flag, path |-> path]

\* The calls main() makes: the regular loop, then the dismissed loop.
\* main() calls create_regular_icon(size), is_dismissed defaulting to False.
DriverJobs ==
    [i \in 1..Len(RegularSizes) |->
        Job("regular", RegularSizes[i], FALSE, RegularPath(RegularSizes[i]))]
    \o
    [i \in 1..Len(DismissedSizes) |->
        Job("dismissed", DismissedSizes[i], FALSE, DismissedPath(DismissedSizes[i]))]

\* A direct caller of the two functions: create_regular_icon(s, flag), then
\* create_dismissed_icon(s); nothing is saved.
DirectJobs(s, flag) ==
    << Job("regular", s, flag, ""), Job("dismissed", s, FALSE, "") >>

Paths == { DriverJobs[i].path : i \in 1..Len(DriverJobs) }

IsMain == jobs = DriverJobs

(* ------------------------- the imaging library ------------------------ *)

Transparent == "transparent"   \* (0, 0, 0, 0)
White == "white"
TextFill == "#0d6efd"
TextStroke == "#0a58ca"
LineColor == "#dc3545"

\* A drawn primitive: kind, the two points it was given (text: the glyph
\* box, both corners included), and w (line width or stroke width).
Prim(kind, x0, y0, x1, y1, w) ==
    [kind |-> kind, x0 |-> x0, y0 |-> y0, x1 |-> x1, y1 |-> y1, w |-> w]

\* Image.new('RGBA', (size, size), (0, 0, 0, 0)): nothing drawn.
NewImage(s) == [size |-> s, prims |-> << >>]

NoCanvas == [size |-> 0, prims |-> << >>]

\* draw.ellipse([(x0, y0), (x1, y1)], fill): the filled ellipse inscribed in
\* the bounding box, whose two corners are both included, so that the
\* ellipse reaches column x1 and row y1.
EllipseCovers(p, x, y) ==
    /\ p.x0 <= x /\ x <= p.x1
    /\ p.y0 <= y /\ y <= p.y1
    /\ LET a == p.x1 - p.x0 + 1
           b == p.y1 - p.y0 + 1
           u == 2 * x - p.x0 - p.x1
           v == 2 * y - p.y0 - p.y1
       IN  u * u * b * b + v * v * a * a <= a * a * b * b

\* draw.text(..., stroke_width=1): the glyph box in the fill colour ...
GlyphCovers(p, x, y) ==
    /\ p.x0 <= x /\ x <= p.x1
    /\ p.y0 <= y /\ y <= p.y1

\* ... and the outline, w pixels around it, in the stroke colour.
StrokeCovers(p, x, y) ==
    /\ p.x0 - p.w <= x /\ x <= p.x1 + p.w
    /\ p.y0 - p.w <= y /\ y <= p.y1 + p.w

\* draw.line([(a, a), (b, b)], width=w): the pixels within w/2 of the
\* segment, measured across the diagonal.
LineCovers(p, x, y) ==
    /\ p.x0 + p.y0 <= x + y /\ x + y <= p.x1 + p.y1
    /\ 2 * (x - y) * (x - y) <= p.w * p.w

Covers(p, x, y) ==
    CASE p.kind = "ellipse" -> EllipseCovers(p, x, y)
      [] p.kind = "text"    -> StrokeCovers(p, x, y)
      [] p.kind = "line"    -> LineCovers(p, x, y)

ColorOf(p, x, y) ==
    CASE p.kind = "ellipse" -> White
      [] p.kind = "text"    -> IF GlyphCovers(p, x, y) THEN TextFill ELSE TextStroke
      [] p.kind = "line"    -> LineColor

\* The colour of pixel (x, y) of image c: the last primitive covering it.
PixelAt(c, x, y) ==
    LET hit == { i \in 1..Len(c.prims) : Covers(c.prims[i], x, y) }
    IN  IF hit = {} THEN Transparent
        ELSE LET last == CHOOSE i \in hit : \A j \in hit : j <= i
             IN  ColorOf(c.prims[last], x, y)

Draw(c, p) == [c EXCEPT !.prims = Append(@, p)]

(* ---------------------------- the environment ------------------------- *)

\* What the font engine measures for "EZ".  A scalable face at point size f
\* measures (f * wNum) / 10 by (f * hNum) / 10, at offset (ox, (f * oyNum) / 10)
\* from the drawing origin; the built-in default face measures dw by dh at
\* offset (dox, doy) whatever size was asked for.
Metrics ==
    { [wNum |-> 13, hNum |-> 7, ox |-> 0, oyNum |-> 2,
       dw |-> 12, dh |-> 11, dox |-> 0, doy |-> 2],
      [wNum |-> 6, hNum |-> 12, ox |-> 1, oyNum |-> 1,
       dw |-> 9, dh |-> 14, dox |-> 1, doy |-> 0] }

Fault(op, s, n, path) == [op |-> op, size |-> s, n |-> n, path |-> path]

NoFault == Fault("none", 0, 0, "")

\* The operations of create_regular_icon's try block (lines 22-47).
TryOps == { "load_default", "textbbox", "text" }

SizesOf(js) == { js[i].size : i \in 1..Len(js) }

\* The single library call that raises in a behaviour, if any.
Faults(js) ==
    {NoFault}
    \cup (IF js = DriverJobs
          THEN {Fault("makedirs", 0, 0, "")}
               \cup { Fault("save", 0, 0, js[i].path) : i \in 1..Len(js) }
          ELSE {})
    \cup { Fault("new", s, 0, "") : s \in SizesOf(js) }
    \cup { Fault("ellipse", s, 0, "") :
             s \in { t \in SizesOf(js) : t - Max(1, t \div 16) < Max(1, t \div 16) } }
    \cup { Fault(op, s, n, "") :
             op \in {"load_default", "textbbox"}, s \in SizesOf(js),
             n \in 1..MaxFaultAttempt }
    \cup { Fault("text", s, 0, "") : s \in SizesOf(js) }

Envs(js) ==
    { e \in [arial : BOOLEAN, metric : Metrics, fault : Faults(js)] :
        e.fault.op = "load_default" => ~e.arial }

(* ------------------------------ the fonts ----------------------------- *)

ArialFont(pt) == [face |-> "Arial", pt |-> pt]

\* ImageFont.load_default(): one built-in face, the size asked for is lost.
DefaultFont == [face |-> "default", pt |-> 0]

NoFont == [face |-> "", pt |-> 0]

\* draw.textbbox((0, 0), "EZ", font=f): (left, top, right, bottom).
TextBBox(e, f) ==
    IF f.face = "Arial"
    THEN LET w == Max(1, (f.pt * e.metric.wNum) \div 10)
             h == Max(1, (f.pt * e.metric.hNum) \div 10)
             l == e.metric.ox
             t == (f.pt * e.metric.oyNum) \div 10
         IN  << l, t, l + w, t + h >>
    ELSE << e.metric.dox, e.metric.doy,
            e.metric.dox + e.metric.dw, e.metric.doy + e.metric.dh >>

(* ------------------------- create_icon_base --------------------------- *)

\* bg_padding = max(1, size // 16)
BgPadding(s) == Max(1, s \div 16)

\* draw.ellipse([(bg_padding, bg_padding), (size-bg_padding, size-bg_padding)])
Background(s) ==
    Prim("ellipse", BgPadding(s), BgPadding(s), s - BgPadding(s), s - BgPadding(s), 0)

\* The canvas create_icon_base returns.
IconBase(s) == Draw(NewImage(s), Background(s))

(* ------------------------ create_regular_icon ------------------------- *)

\* Faulty variant: the first candidate is size * 1.1 rounded, not truncated.
StartFontSizeRounded(s) == (s * 11 + 5) \div 10

\* int(size * 1.1): the product truncated.  size * 1.1 is never below the
\* exact size * 11 / 10 (the double 1.1 is above 11/10), and is within
\* 1e-12 of it for these sizes, so truncation gives (size * 11) div 10.
StartFontSize(s) == (s * 11) \div 10

\* range(start, 4, -1) stops before 4.
LoopStop == 4

\* The loop variable's next value: start at first, then one less.
NextCandidate(s, fs) == IF fs = 0 THEN StartFontSize(s) ELSE fs - 1

\* padding = max(1, size // 10)
TextPadding(s) == Max(1, s \div 10)

\* Faulty variant: the fit test forgets the height.
FitsWidthOnly(w, h, s) == w <= s - 2 * TextPadding(s)

\* text_width <= (size - 2*padding) and text_height <= (size - 2*padding)
Fits(w, h, s) ==
    /\ w <= s - 2 * TextPadding(s)
    /\ h <= s - 2 * TextPadding(s)

\* x = (size - text_width) / 2 - text_bbox[0], doubled to stay in integers.
TextOrigin2(s, extent, offset) == (s - extent) - 2 * offset

\* draw.text((x, y), "EZ", font=f, stroke_width=1): the glyphs land at the
\* origin plus the offset and extent f measures, with a 1-pixel outline.
TextPrim(e, f, x2, y2) ==
    LET b  == TextBBox(e, f)
        gx == (x2 + 2 * b[1]) \div 2
        gy == (y2 + 2 * b[2]) \div 2
    IN  Prim("text", gx, gy, gx + (b[3] - b[1]) - 1, gy + (b[4] - b[2]) - 1, 1)

\* Faulty variant: the text code runs outside any try block.
HandlerWithoutTry(op) == "crashed"

\* Faulty variant: a failing icon.save is swallowed and the loop goes on.
HandlerSwallowsSave(op) ==
    IF op \in TryOps \cup {"unbound"} THEN "warn"
    ELSE IF op = "save" THEN "print" ELSE "crashed"

\* Where control goes when the call op raises: the try of lines 22-49
\* catches what is raised inside it; nothing catches anything else.
Handler(op) == IF op \in TryOps \cup {"unbound"} THEN "warn" ELSE "crashed"

\* The position a finished icon is handed to: main() saves it, a direct
\* caller keeps it.
Deliver == IF IsMain THEN "save" ELSE "collect"

\* Which candidate of the fit loop is being tried: 1 for the first.
Attempt == StartFontSize(size) - font_size + 1

FaultHits(op) ==
    /\ env.fault.op = op
    /\ env.fault.size = size

(* ----------------------- create_dismissed_icon ------------------------ *)

\* Faulty variant: the line starts a third of the way in.
LinePaddingThird(s) == s \div 3

\* line_padding = size // 4
LinePadding(s) == s \div 4

\* line_width = max(2, size // 16)
LineWidth(s) == Max(2, s \div 16)

\* draw.line([(line_padding, line_padding),
\*            (size-line_padding, size-line_padding)], width=line_width)
Overlay(s) ==
    Prim("line", LinePadding(s), LinePadding(s),
         s - LinePadding(s), s - LinePadding(s), LineWidth(s))

(* ------------------------------- main --------------------------------- *)

\* Faulty variant: os.makedirs('images') without exist_ok raises when images/ exists.
MakedirsWithoutExistOk(exists) == exists

\* os.makedirs('images', exist_ok=True) does not raise for an existing
\* directory.
MakedirsRaises(exists) == FALSE

AbsentFile == [state |-> "absent", image |-> NoCanvas]

PngFile(c) == [state |-> "png", image |-> c]

PartialFile == [state |-> "partial", image |-> NoCanvas]

(* ------------------------------ the states ---------------------------- *)

Init ==
    /\ jobs \in {DriverJobs}
                \cup { DirectJobs(s, flag) : s \in 1..MaxSize, flag \in BOOLEAN }
    /\ env \in Envs(jobs)
    /\ run = 1
    /\ pc = IF IsMain THEN "makedirs" ELSE "call"
    /\ idx = 1
    /\ frame = ""
    /\ size = 0
    /\ is_dismissed = FALSE
    /\ canvas = NoCanvas
    /\ font_size = 0
    /\ font = NoFont
    /\ measured = FALSE
    /\ text_bbox = << 0, 0, 0, 0 >>
    /\ text_width = 0
    /\ text_height = 0
    /\ tried = << >>
    /\ raised = {}
    /\ warned = FALSE
    /\ dirExists = FALSE
    /\ files = [p \in Paths |-> AbsentFile]
    /\ saveCalls = << >>
    /\ written = << >>
    /\ printed = << >>
    /\ results = << >>
    /\ prevFiles = [p \in Paths |-> AbsentFile]
    /\ failedOp = ""

driverVars == << env, jobs, run, idx >>
callVars == << frame, size, is_dismissed >>
fitVars == << font_size, font, measured, text_bbox, text_width, text_height, tried >>
fsVars == << dirExists, files, saveCalls, written, prevFiles >>

\* An exception of call op leaves the current position for its handler.
Raise(op) ==
    /\ pc' = Handler(op)
    /\ failedOp' = IF op \in TryOps \cup {"unbound"} THEN failedOp ELSE op

\* line 73: os.makedirs('images', exist_ok=True)
MakeDirs ==
    /\ pc = "makedirs"
    /\ IF env.fault.op = "makedirs" \/ MakedirsRaises(dirExists)
       THEN /\ Raise("makedirs")
            /\ UNCHANGED dirExists
       ELSE /\ dirExists' = TRUE
            /\ pc' = "call"
            /\ UNCHANGED failedOp
    /\ UNCHANGED << driverVars, callVars, fitVars, canvas, raised, warned,
                    files, saveCalls, written, prevFiles, printed, results >>

\* lines 77, 83 and 17, 54-57: the call of the next icon function; a call
\* starts with fresh locals.  create_dismissed_icon calls
\* create_regular_icon(size, is_dismissed=False).
Call ==
    /\ pc = "call"
    /\ frame' = jobs[idx].fn
    /\ size' = jobs[idx].size
    /\ is_dismissed' = IF jobs[idx].fn = "regular" THEN jobs[idx].is_dismissed ELSE FALSE
    /\ canvas' = NoCanvas
    /\ font_size' = 0
    /\ font' = NoFont
    /\ measured' = FALSE
    /\ text_bbox' = << 0, 0, 0, 0 >>
    /\ text_width' = 0
    /\ text_height' = 0
    /\ tried' = << >>
    /\ raised' = {}
    /\ warned' = FALSE
    /\ pc' = "base"
    /\ UNCHANGED << driverVars, fsVars, printed, results, failedOp >>

\* lines 4-15 and 19: create_icon_base(size)
CreateIconBase ==
    /\ pc = "base"
    /\ IF FaultHits("new")
       THEN /\ Raise("new")
            /\ UNCHANGED canvas
       ELSE IF FaultHits("ellipse")
       THEN /\ Raise("ellipse")
            /\ UNCHANGED canvas
       ELSE /\ canvas' = IconBase(size)
            /\ pc' = "loop"
            /\ UNCHANGED failedOp
    /\ UNCHANGED << driverVars, callVars, fitVars, fsVars, raised, warned,
                    printed, results >>

\* lines 24-28: the loop takes its next candidate and loads the font,
\* falling back to the default face when Arial cannot be loaded; when the
\* range is exhausted control passes to line 41.
ForNext ==
    /\ pc = "loop"
    /\ LET c == NextCandidate(size, font_size)
       IN  IF c > LoopStop
           THEN /\ font_size' = c
                /\ IF env.arial
                   THEN /\ font' = ArialFont(c)
                        /\ pc' = "measure"
                        /\ UNCHANGED << raised, failedOp >>
                   ELSE IF FaultHits("load_default")
                           /\ env.fault.n = StartFontSize(size) - c + 1
                   THEN /\ raised' = raised \cup {"truetype", "load_default"}
                        /\ Raise("load_default")
                        /\ UNCHANGED font
                   ELSE /\ raised' = raised \cup {"truetype"}
                        /\ font' = DefaultFont
                        /\ pc' = "measure"
                        /\ UNCHANGED failedOp
           ELSE /\ pc' = "position"
                /\ UNCHANGED << font_size, font, raised, failedOp >>
    /\ UNCHANGED << driverVars, callVars, canvas, measured, text_bbox, text_width,
                    text_height, tried, fsVars, warned, printed, results >>

\* lines 30-38: measure "EZ" in the candidate font and leave the loop if
\* it fits.
MeasureText ==
    /\ pc = "measure"
    /\ IF FaultHits("textbbox") /\ env.fault.n = Attempt
       THEN /\ raised' = raised \cup {"textbbox"}
            /\ Raise("textbbox")
            /\ UNCHANGED << measured, text_bbox, text_width, text_height, tried >>
       ELSE LET b == TextBBox(env, font)
                w == b[3] - b[1]
                h == b[4] - b[2]
            IN  /\ text_bbox' = b
                /\ text_width' = w
                /\ text_height' = h
                /\ measured' = TRUE
                /\ tried' = Append(tried, [font_size |-> font_size, font |-> font,
                                           bbox |-> b, fit |-> Fits(w, h, size)])
                /\ pc' = IF Fits(w, h, size) THEN "position" ELSE "loop"
                /\ UNCHANGED << raised, failedOp >>
    /\ UNCHANGED << driverVars, callVars, canvas, font_size, font, fsVars, warned,
                    printed, results >>

\* lines 41-47: centre the text from the last measurement and draw it.
\* text_width is unbound when the loop body never ran.
DrawText ==
    /\ pc = "position"
    /\ IF ~measured
       THEN /\ raised' = raised \cup {"unbound"}
            /\ Raise("unbound")
            /\ UNCHANGED canvas
       ELSE IF FaultHits("text")
       THEN /\ raised' = raised \cup {"text"}
            /\ Raise("text")
            /\ UNCHANGED canvas
       ELSE /\ canvas' = Draw(canvas,
                              TextPrim(env, font,
                                       TextOrigin2(size, text_width, text_bbox[1]),
                                       TextOrigin2(size, text_height, text_bbox[2])))
            /\ pc' = "ret"
            /\ UNCHANGED << raised, failedOp >>
    /\ UNCHANGED << driverVars, callVars, fitVars, fsVars, warned, printed, results >>

\* lines 49-50: print(f"Warning: Could not add text to icon: {e}")
Warn ==
    /\ pc = "warn"
    /\ warned' = TRUE
    /\ printed' = Append(printed, "Warning: Could not add text to icon")
    /\ pc' = "ret"
    /\ UNCHANGED << driverVars, callVars, fitVars, fsVars, canvas, raised,
                    results, failedOp >>

\* line 52: return icon, to create_dismissed_icon or to the caller.
ReturnRegular ==
    /\ pc = "ret"
    /\ pc' = IF frame = "dismissed" THEN "overlay" ELSE Deliver
    /\ UNCHANGED << driverVars, callVars, fitVars, fsVars, canvas, raised, warned,
                    printed, results, failedOp >>

\* lines 58-69: the diagonal line on the canvas create_regular_icon returned.
DismissedOverlay ==
    /\ pc = "overlay"
    /\ canvas' = Draw(canvas, Overlay(size))
    /\ pc' = Deliver
    /\ UNCHANGED << driverVars, callVars, fitVars, fsVars, raised, warned,
                    printed, results, failedOp >>

\* lines 78, 84: icon.save(path, 'PNG').  A save that raises leaves the file
\* as it was or partly written.
Save ==
    /\ pc = "save"
    /\ saveCalls' = Append(saveCalls, jobs[idx].path)
    /\ IF env.fault.op = "save" /\ env.fault.path = jobs[idx].path
       THEN /\ Raise("save")
            /\ \E f \in {files[jobs[idx].path], PartialFile} :
                   files' = [files EXCEPT ![jobs[idx].path] = f]
            /\ UNCHANGED written
       ELSE /\ files' = [files EXCEPT ![jobs[idx].path] = PngFile(canvas)]
            /\ written' = Append(written, jobs[idx].path)
            /\ pc' = "print"
            /\ UNCHANGED failedOp
    /\ UNCHANGED << driverVars, callVars, fitVars, canvas, raised, warned,
                    dirExists, prevFiles, printed, results >>

\* lines 79, 85: print(f"Created {path}"), then the next iteration.
PrintCreated ==
    /\ pc = "print"
    /\ printed' = Append(printed, "Created " \o jobs[idx].path)
    /\ IF idx < Len(jobs)
       THEN idx' = idx + 1 /\ pc' = "call"
       ELSE idx' = idx /\ pc' = "done"
    /\ UNCHANGED << env, jobs, run, callVars, fitVars, fsVars, canvas, raised,
                    warned, results, failedOp >>

\* A direct caller keeps the canvas returned and makes its next call.
Collect ==
    /\ pc = "collect"
    /\ results' = Append(results, canvas)
    /\ IF idx < Len(jobs)
       THEN idx' = idx + 1 /\ pc' = "call"
       ELSE idx' = idx /\ pc' = "done"
    /\ UNCHANGED << env, jobs, run, callVars, fitVars, fsVars, canvas, raised,
                    warned, printed, failedOp >>

\* The program is started again after a complete run (line 88, a new
\* process): images/ and its files are what the last run left.
Rerun ==
    /\ pc = "done"
    /\ IsMain
    /\ run < MaxRuns
    /\ run' = run + 1
    /\ prevFiles' = files
    /\ saveCalls' = << >>
    /\ written' = << >>
    /\ printed' = << >>
    /\ idx' = 1
    /\ pc' = "makedirs"
    /\ frame' = ""
    /\ size' = 0
    /\ is_dismissed' = FALSE
    /\ canvas' = NoCanvas
    /\ font_size' = 0
    /\ font' = NoFont
    /\ measured' = FALSE
    /\ text_bbox' = << 0, 0, 0, 0 >>
    /\ text_width' = 0
    /\ text_height' = 0
    /\ tried' = << >>
    /\ raised' = {}
    /\ warned' = FALSE
    /\ UNCHANGED << env, jobs, dirExists, files, results, failedOp >>

Next ==
    \/ MakeDirs
    \/ Call
    \/ CreateIconBase
    \/ ForNext
    \/ MeasureText
    \/ DrawText
    \/ Warn
    \/ ReturnRegular
    \/ DismissedOverlay
    \/ Save
    \/ PrintCreated
    \/ Collect
    \/ Rerun

Spec == Init /\ [][Next]_vars

(* ------------------------------ the claims ---------------------------- *)

\* The six paths of the driver, in its order.
ExpectedPaths ==
    << "images/icon-16.png", "images/icon-32.png", "images/icon-48.png",
       "images/icon-128.png", "images/icon-dismissed-16.png",
       "images/icon-dismissed-32.png" >>

ExpectedSizes == << 16, 32, 48, 128, 16, 32 >>

Kinds(c) == [i \in 1..Len(c.prims) |-> c.prims[i].kind]

HasText(c) == \E i \in 1..Len(c.prims) : c.prims[i].kind = "text"

HasLine(c) == \E i \in 1..Len(c.prims) : c.prims[i].kind = "line"

\* The Regular variant: background circle, then the text, no line.
IsRegularVariant(c, s) ==
    /\ c.size = s
    /\ Kinds(c) \in { <<"ellipse">>, <<"ellipse", "text">> }

\* The Dismissed variant: the Regular variant, then the line.
IsDismissedVariant(c, s) ==
    /\ c.size = s
    /\ Kinds(c) \in { <<"ellipse", "line">>, <<"ellipse", "text", "line">> }

Pixels(s) == (0..(s - 1)) \X (0..(s - 1))

\* C1: a run of main() in which no call raises saves the six files, each
\* once and in the driver's order, after images/ was ensured; the regular
\* files hold the Regular variant of their size and the dismissed files the
\* Dismissed variant; the run ends at "done", not by an exception.
C1_FullRun ==
    /\ (saveCalls # << >> => dirExists)
    /\ (IsMain /\ env.fault = NoFault => (pc # "crashed" /\ failedOp = ""))
    /\ (IsMain /\ env.fault = NoFault /\ pc = "done" =>
          /\ saveCalls = ExpectedPaths
          /\ written = ExpectedPaths
          /\ \A i \in 1..4 :
                /\ files[ExpectedPaths[i]].state = "png"
                /\ IsRegularVariant(files[ExpectedPaths[i]].image, ExpectedSizes[i])
                /\ HasText(files[ExpectedPaths[i]].image)
          /\ \A i \in 5..6 :
                /\ files[ExpectedPaths[i]].state = "png"
                /\ IsDismissedVariant(files[ExpectedPaths[i]].image, ExpectedSizes[i])
                /\ HasText(files[ExpectedPaths[i]].image))

C1_Witness ==
    /\ IsMain /\ env.fault = NoFault /\ run = 1 /\ pc = "done"
    /\ Len(written) = 6

\* The calls no handler encloses.
FatalOps == { "makedirs", "new", "ellipse", "save" }

\* The failures the try block of create_regular_icon warns about.
WarnedOps == { "load_default", "textbbox", "text", "unbound" }

\* C2 as stated: whenever a call of the text code raised (font loading
\* included), create_regular_icon returns having printed the warning.
C2_AnyTextFailureWarns ==
    (pc = "ret" /\ raised # {}) => warned

\* C2 as amended: no failure of the text code leaves create_regular_icon.
\* A failure to load Arial is caught silently and replaced by the default
\* face; any other failure in the try block prints the warning and the
\* canvas returned is the background circle alone.  The driver then saves
\* the icon and goes on to the remaining ones.
C2_TextFailureCaught ==
    /\ (pc = "crashed" => failedOp \in FatalOps)
    /\ (pc = "warn" => raised \cap WarnedOps # {})
    /\ (pc = "ret" =>
          /\ (raised \cap WarnedOps # {} => (warned /\ canvas = IconBase(size)))
          /\ (raised \subseteq {"truetype"} =>
                (~warned /\ Kinds(canvas) = <<"ellipse", "text">>)))
    /\ (IsMain /\ env.fault.op \in TryOps => failedOp = "")
    /\ (IsMain /\ env.fault.op \in TryOps /\ pc = "done" =>
          /\ written = ExpectedPaths
          /\ \A i \in 1..Len(ExpectedPaths) :
                files[ExpectedPaths[i]].state = "png")

\* A measurement failed in the driver's first icon, and the run completed.
C2_Witness ==
    /\ IsMain /\ pc = "done"
    /\ env.fault.op = "textbbox" /\ env.fault.size = 16
    /\ ~HasText(files["images/icon-16.png"].image)
    /\ HasText(files["images/icon-32.png"].image)
    /\ Len(written) = 6

\* C3: a failure of os.makedirs, of canvas creation or of icon.save is not
\* caught: the run ends there.  The paths written are those before the
\* failing one, no "Created" line names the failing path, no path is saved
\* twice, the step that fails changes no other file, and nothing runs after.
C3_FatalPropagates ==
    /\ [](failedOp # "" =>
            /\ pc = "crashed"
            /\ failedOp \in FatalOps
            /\ IsMain =>
                 /\ written = SubSeq(ExpectedPaths, 1, Len(written))
                 /\ Len(written) = IF failedOp = "makedirs" THEN 0 ELSE idx - 1
                 /\ \A i \in 1..Len(printed) :
                        printed[i] # "Created " \o jobs[idx].path
                 /\ \A i \in 1..Len(written) :
                        /\ files[written[i]].state = "png"
                        /\ files[written[i]].image.size = ExpectedSizes[i]
                 /\ \A i \in (idx + 1)..Len(jobs) :
                        files[jobs[i].path] = prevFiles[jobs[i].path]
                 /\ \A i, j \in 1..Len(saveCalls) :
                        saveCalls[i] = saveCalls[j] => i = j)
    /\ [][/\ pc # "crashed"
          /\ failedOp' # "" =>
               \A p \in Paths \ {jobs[idx].path} : files'[p] = files[p]]_vars

\* The third save failed: two files written, then the run ended.
C3_Witness ==
    /\ IsMain /\ pc = "crashed" /\ failedOp = "save"
    /\ written = << "images/icon-16.png", "images/icon-32.png" >>
    /\ files["images/icon-48.png"].state = "partial"
    /\ files["images/icon-128.png"].state = "absent"

\* The pixels of the diagonal from (s//4, s//4) to (s - s//4, s - s//4)
\* drawn with width max(2, s//16).
OnDiagonal(s, x, y) ==
    LineCovers(Prim("line", s \div 4, s \div 4, s - s \div 4, s - s \div 4,
                    Max(2, s \div 16)), x, y)

\* dis is reg with the diagonal added and nothing else changed.
OverlayAdditive(reg, dis, s) ==
    /\ reg.size = s
    /\ dis.size = s
    /\ \A q \in Pixels(s) :
          PixelAt(dis, q[1], q[2]) =
             IF OnDiagonal(s, q[1], q[2]) THEN LineColor
             ELSE PixelAt(reg, q[1], q[2])

\* C4: the canvas create_dismissed_icon(s) returns is the canvas
\* create_regular_icon(s) returns with every pixel of the diagonal in
\* #dc3545 and every other pixel unchanged: for a direct caller of both
\* functions at any size, and for the driver's files of sizes 16 and 32.
C4_OverlayAdditive ==
    /\ (~IsMain /\ pc = "done" =>
          OverlayAdditive(results[1], results[2], jobs[1].size))
    /\ (IsMain /\ pc = "done" =>
          /\ OverlayAdditive(files["images/icon-16.png"].image,
                             files["images/icon-dismissed-16.png"].image, 16)
          /\ OverlayAdditive(files["images/icon-32.png"].image,
                             files["images/icon-dismissed-32.png"].image, 32))

\* Both functions returned at size 16; the line crosses the text and the
\* circle, and leaves text, circle and transparent pixels elsewhere.
C4_Witness ==
    /\ ~IsMain /\ pc = "done" /\ jobs[1].size = 16
    /\ HasText(results[1])
    /\ \E q \in Pixels(16) :
          /\ PixelAt(results[1], q[1], q[2]) = TextFill
          /\ PixelAt(results[2], q[1], q[2]) = LineColor
    /\ \E q \in Pixels(16) :
          /\ PixelAt(results[1], q[1], q[2]) = TextFill
          /\ PixelAt(results[2], q[1], q[2]) = TextFill
    /\ \E q \in Pixels(16) : PixelAt(results[2], q[1], q[2]) = Transparent

\* C5: a second run of main(), with images/ and the six files in place,
\* does not raise, saves the six files again, and leaves each file with
\* the contents the first run gave it.
C5_Idempotent ==
    IsMain /\ run > 1 =>
       /\ pc # "crashed"
       /\ failedOp = ""
       /\ pc # "makedirs" => dirExists
       /\ pc = "done" =>
            /\ written = ExpectedPaths
            /\ files = prevFiles
            /\ \A p \in Paths : files[p].state = "png"

C5_Witness ==
    /\ IsMain /\ run = 2 /\ pc = "done"
    /\ Len(written) = 6
    /\ \A p \in Paths : prevFiles[p].state = "png"

\* C6 as stated: the background circle is inset by max(1, size // 16) on
\* the left, top, right and bottom alike, and the finished canvas has no
\* non-transparent pixel in row 0, column 0, row size-1 or column size-1.
C6_PaddedInterior ==
    pc = "ret" =>
       \A q \in Pixels(size) :
          /\ EllipseCovers(canvas.prims[1], q[1], q[2]) =>
                /\ Max(1, size \div 16) <= q[1]
                /\ q[1] <= size - 1 - Max(1, size \div 16)
                /\ Max(1, size \div 16) <= q[2]
                /\ q[2] <= size - 1 - Max(1, size \div 16)
          /\ PixelAt(canvas, q[1], q[2]) # Transparent =>
                /\ 1 <= q[1] /\ q[1] <= size - 2
                /\ 1 <= q[2] /\ q[2] <= size - 2

\* size * 1.1 rounded to the nearest integer (a tie to the even one).
RoundedStart(s) ==
    LET q == (s * 11) \div 10
        r == (s * 11) % 10
    IN  IF r < 5 THEN q
        ELSE IF r > 5 THEN q + 1
        ELSE IF q % 2 = 0 THEN q ELSE q + 1

\* The font sizes measured so far are start, start - 1, ... without a gap.
DescendsFrom(start) ==
    /\ \A i \in 1..Len(tried) : tried[i].font_size = start - (i - 1)
    /\ \A i \in 1..Len(tried) : tried[i].font_size >= 5
    /\ (pc = "measure" => font_size = start - Len(tried))
    /\ (pc = "measure" => font_size >= 5)

\* C7 as stated: the candidates of the fit loop descend by 1 from
\* round(size * 1.1).
C7_StartsAtRound ==
    pc \in {"loop", "measure", "position", "ret"} => DescendsFrom(RoundedStart(size))

\* C7 as amended: the candidates descend by 1 from int(size * 1.1), the
\* product truncated, and never go below 5; the loop stops at the first
\* candidate that fits and otherwise runs down to 5 included.  The first
\* candidate is 17, 35, 52 and 140 for the sizes 16, 32, 48 and 128.
C7_StartsAtTruncation ==
    pc \in {"loop", "measure", "position", "ret"} =>
       /\ DescendsFrom((size * 11) \div 10)
       /\ (size = 16 /\ tried # << >> => tried[1].font_size = 17)
       /\ (size = 32 /\ tried # << >> => tried[1].font_size = 35)
       /\ (size = 48 /\ tried # << >> => tried[1].font_size = 52)
       /\ (size = 128 /\ tried # << >> => tried[1].font_size = 140)
       /\ (pc = "position" /\ measured /\ ~tried[Len(tried)].fit =>
             tried[Len(tried)].font_size = 5)
       /\ (pc = "position" /\ ~measured => (size * 11) \div 10 < 5)

\* At size 128 the loop started at 140 and stopped at a smaller candidate.
C7_Witness ==
    /\ size = 128 /\ pc = "position"
    /\ Len(tried) > 2
    /\ tried[1].font_size = 140
    /\ tried[Len(tried)].fit

Width(b) == b[3] - b[1]

Height(b) == b[4] - b[2]

\* C8: the loop stops at the first candidate whose measured box is no wider
\* and no taller than size - 2 * max(1, size // 10), so no candidate is
\* tried after one that fits; the text is drawn in the font of the last
\* candidate measured and centred from that candidate's box; if that
\* candidate fits, its font size is in [5, start] and the drawn box obeys
\* both inequalities.
C8_FirstFitDrawn ==
    /\ \A i \in 1..Len(tried) :
          /\ tried[i].fit =
               (/\ Width(tried[i].bbox) <= size - 2 * Max(1, size \div 10)
                /\ Height(tried[i].bbox) <= size - 2 * Max(1, size \div 10))
          /\ (i < Len(tried) => ~tried[i].fit)
    /\ (pc \in {"loop", "measure"} => \A i \in 1..Len(tried) : ~tried[i].fit)
    /\ (pc = "ret" /\ HasText(canvas) =>
          LET last == tried[Len(tried)]
              t    == canvas.prims[2]
          IN  /\ font = last.font
              /\ font_size = last.font_size
              /\ text_bbox = last.bbox
              /\ t.x1 - t.x0 + 1 = Width(last.bbox)
              /\ t.y1 - t.y0 + 1 = Height(last.bbox)
              /\ t.x0 = (size - Width(last.bbox)) \div 2
              /\ t.y0 = (size - Height(last.bbox)) \div 2
              /\ (last.fit =>
                    /\ 5 <= font_size
                    /\ font_size <= StartFontSize(size)
                    /\ t.x1 - t.x0 + 1 <= size - 2 * Max(1, size \div 10)
                    /\ t.y1 - t.y0 + 1 <= size - 2 * Max(1, size \div 10)))

\* The text was drawn at a candidate that fits, after larger ones did not.
C8_Witness ==
    /\ pc = "ret" /\ HasText(canvas)
    /\ Len(tried) >= 3
    /\ tried[Len(tried)].fit
    /\ font.face = "Arial"
    /\ font_size > 5

\* C9 as stated: for every positive size, when no candidate fits and no
\* call raises, the loop ends at font size 5, the text is drawn in that
\* font, and no warning is printed.
C9_NoFitDrawsAtFloor ==
    (/\ pc = "ret"
     /\ env.fault = NoFault
     /\ \A i \in 1..Len(tried) : ~tried[i].fit) =>
        /\ font_size = 5
        /\ HasText(canvas)
        /\ ~warned

\* C10 as stated: create_regular_icon(size, True) returns what
\* create_dismissed_icon(size) returns (the line drawn), and
\* create_regular_icon(size, False) returns a canvas without the line.
C10_DismissalFlag ==
    (~IsMain /\ pc = "done") =>
        IF jobs[1].is_dismissed
        THEN results[1] = results[2]
        ELSE ~HasLine(results[1])

====
